---- MODULE Spec2Model ----
(***************************************************************************)
(* Model of the crate box_into_inner (src/src/lib.rs).                     *)
(*                                                                         *)
(* The heap is a set of live allocations plus the bits stored in each      *)
(* slot.  A caller repeats: Box::new(v); box_into_inner(b) or              *)
(* b.into_inner(); drop of the returned value.  box_into_inner is modelled *)
(* statement by statement: the transmute of line 42, the assume_init_read  *)
(* of line 45 and the drop of the local boxed_uninit when the body's scope *)
(* ends on line 46.                                                        *)
(***************************************************************************)
EXTENDS Integers, Sequences, FiniteSets, TLC

VARIABLES
    pc,            \* position of the single thread of control
    via,           \* "fn": box_into_inner called directly, "method": through into_inner
    live,          \* addresses of the live heap allocations
    mem,           \* bits stored at each address
    boxed_value,   \* the caller's Box<T> (lines 14, 33)
    self,          \* into_inner's parameter (line 65)
    value,         \* box_into_inner's parameter (line 38)
    boxed_uninit,  \* box_into_inner's local (line 42)
    inner_value,   \* the value read on line 45: return place, then the caller's inner_value
    dropCount,     \* runs of a destructor of T so far (the cleanup counter)
    freeCount,     \* allocator frees so far
    allocCount,    \* allocator allocations so far
    ub,            \* TRUE once an address that is not live was freed
    entry,         \* heap and counters when box_into_inner was entered
    orig,          \* the value the caller passed to Box::new, and what it showed
    iter,          \* boxes created so far
    created,       \* values created so far whose type has a destructor
    live0          \* the allocations live before the first repetition

vars == <<pc, via, live, mem, boxed_value, self, value, boxed_uninit, inner_value,
          dropCount, freeCount, allocCount, ub, entry, orig, iter, created, live0>>

\* ---------------------------------------------------------------- bounds

MaxAddr == 3
MaxIter == 2

\* ---------------------------------------------------------------- types

Addrs == 1..MaxAddr

\* The pointer of a Box of a zero-sized T: no allocation stands behind it.
Dangling == 0

\* The types T the generic parameter of line 38 is instantiated with:
\*   Str         &'static str (line 14): sized, no destructor
\*   Vec         Vec<i32> (line 33): sized, owns a heap buffer its destructor frees
\*   Counted     a sized struct whose destructor increments the counter
\*   Unit        a zero-sized type without destructor
\*   ZstCounted  a zero-sized struct whose destructor increments the counter
Types == {"Str", "Vec", "Counted", "Unit", "ZstCounted"}

SizeOf(ty) ==
    CASE ty = "Str" -> 16
      [] ty = "Vec" -> 24
      [] ty = "Counted" -> 8
      [] OTHER -> 0

NeedsDrop(ty) == ty \in {"Vec", "Counted", "ZstCounted"}

Hello == <<72, 101, 108, 108, 111, 44, 32, 87, 111, 114, 108, 100, 33>>

\* The payloads the caller builds values from.
Payloads(ty) ==
    CASE ty = "Str" -> {Hello, <<72, 105>>}
      [] ty = "Vec" -> {<<1, 2, 3, 4, 5>>, <<7>>}
      [] ty = "Counted" -> {<<0>>, <<1>>}
      [] OTHER -> {<<>>}

NoCell == [ty |-> "None", bits |-> <<>>]
NoValue == NoCell
NoBox == [ptr |-> Dangling, ty |-> "None", view |-> "None"]

\* The bit patterns a slot of type ty can hold: a Vec is (buffer pointer, length).
ValuesOf(ty) ==
    IF ty = "Vec"
    THEN {[ty |-> ty, bits |-> <<b, Len(p)>>] : b \in Addrs, p \in Payloads(ty)}
    ELSE {[ty |-> ty, bits |-> p] : p \in Payloads(ty)}

\* ---------------------------------------------------------------- heap

Heap == [live |-> live, frees |-> freeCount, drops |-> dropCount, ub |-> ub]

SetHeap(h) ==
    /\ live' = h.live
    /\ freeCount' = h.frees
    /\ dropCount' = h.drops
    /\ ub' = h.ub

\* The allocator's free of address a.
Dealloc(h, a) ==
    [h EXCEPT !.live = @ \ {a}, !.frees = @ + 1, !.ub = @ \/ a \notin h.live]

\* The destructor of T run on value v: a Vec frees its buffer.
DropInPlace(h, v) ==
    IF ~NeedsDrop(v.ty) THEN h
    ELSE LET h1 == [h EXCEPT !.drops = @ + 1]
         IN  IF v.ty = "Vec" THEN Dealloc(h1, v.bits[1]) ELSE h1

\* Reading a T through the pointer of box b.  A zero-sized T has one value and
\* no memory is touched; a read of a slot that is not live yields any bits.
ReadSlot(b) ==
    IF SizeOf(b.ty) = 0 THEN {[ty |-> b.ty, bits |-> <<>>]}
    ELSE IF b.ptr \in live THEN {mem[b.ptr]}
    ELSE ValuesOf(b.ty)

\* Drop of a box: a Box<T> runs T's destructor on its content, a
\* Box<MaybeUninit<T>> does not; both free the allocation unless T is zero-sized.
DropBox(h, b, content) ==
    LET h1 == IF b.view = "T" THEN DropInPlace(h, content) ELSE h
    IN  IF SizeOf(b.ty) = 0 THEN h1 ELSE Dealloc(h1, b.ptr)

\* What a value shows to its owner: a Vec shows the elements of its buffer.
Poisoned == <<-1>>
Observe(v, lv, m) ==
    IF v.ty = "Vec"
    THEN IF v.bits[1] \in lv THEN SubSeq(m[v.bits[1]].bits, 1, v.bits[2]) ELSE Poisoned
    ELSE v.bits

NoEntry == [box |-> NoBox, live |-> {}, frees |-> 0, drops |-> 0]
NoOrig == [val |-> NoValue, seen |-> <<>>]

\* ---------------------------------------------------------------- Init

Init ==
    /\ pc = "idle"
    /\ via = "fn"
    /\ live0 \in {{}, {MaxAddr}}
    /\ live = live0
    /\ mem = [a \in Addrs |-> NoCell]
    /\ boxed_value = NoBox
    /\ self = NoBox
    /\ value = NoBox
    /\ boxed_uninit = NoBox
    /\ inner_value = NoValue
    /\ dropCount = 0
    /\ freeCount = 0
    /\ allocCount = 0
    /\ ub = FALSE
    /\ entry = NoEntry
    /\ orig = NoOrig
    /\ iter = 0
    /\ created = 0

\* ---------------------------------------------------------------- caller

\* Box::new(v) for a sized T without heap buffer, or for a zero-sized T.
BoxNewPlain(ty, p) ==
    /\ pc = "idle"
    /\ iter < MaxIter
    /\ ty # "Vec"
    /\ LET v == [ty |-> ty, bits |-> p] IN
       /\ IF SizeOf(ty) = 0
          THEN /\ boxed_value' = [ptr |-> Dangling, ty |-> ty, view |-> "T"]
               /\ UNCHANGED <<live, mem, allocCount>>
          ELSE \E a \in Addrs \ live :
               /\ boxed_value' = [ptr |-> a, ty |-> ty, view |-> "T"]
               /\ live' = live \cup {a}
               /\ mem' = [mem EXCEPT ![a] = v]
               /\ allocCount' = allocCount + 1
       /\ orig' = [val |-> v, seen |-> p]
    /\ pc' = "boxed"
    /\ iter' = iter + 1
    /\ created' = created + (IF NeedsDrop(ty) THEN 1 ELSE 0)
    /\ UNCHANGED <<via, self, value, boxed_uninit, inner_value, dropCount, freeCount,
                   ub, entry, live0>>

\* Box::new(vec![...]): the Vec allocates its buffer, then the box its slot.
BoxNewVec(p) ==
    /\ pc = "idle"
    /\ iter < MaxIter
    /\ \E b \in Addrs \ live : \E a \in Addrs \ (live \cup {b}) :
       LET v == [ty |-> "Vec", bits |-> <<b, Len(p)>>] IN
       /\ boxed_value' = [ptr |-> a, ty |-> "Vec", view |-> "T"]
       /\ live' = live \cup {a, b}
       /\ mem' = [mem EXCEPT ![b] = [ty |-> "Buf", bits |-> p], ![a] = v]
       /\ allocCount' = allocCount + 2
       /\ orig' = [val |-> v, seen |-> p]
    /\ pc' = "boxed"
    /\ iter' = iter + 1
    /\ created' = created + 1
    /\ UNCHANGED <<via, self, value, boxed_uninit, inner_value, dropCount, freeCount,
                   ub, entry, live0>>

\* box_into_inner(boxed_value): the box moves into the parameter `value`.
call_box_into_inner ==
    /\ pc = "boxed"
    /\ pc' = "entered"
    /\ via' = "fn"
    /\ value' = boxed_value
    /\ boxed_value' = NoBox
    /\ entry' = [box |-> boxed_value, live |-> live, frees |-> freeCount,
                 drops |-> dropCount]
    /\ UNCHANGED <<live, mem, self, boxed_uninit, inner_value, dropCount, freeCount,
                   allocCount, ub, orig, iter, created, live0>>

\* boxed_value.into_inner(): the box moves into `self`.
call_into_inner ==
    /\ pc = "boxed"
    /\ pc' = "method"
    /\ via' = "method"
    /\ self' = boxed_value
    /\ boxed_value' = NoBox
    /\ UNCHANGED <<live, mem, value, boxed_uninit, inner_value, dropCount, freeCount,
                   allocCount, ub, entry, orig, iter, created, live0>>

\* The returned value's lifetime ends in the caller: T's destructor runs on it.
DropInner ==
    /\ pc = "returned"
    /\ pc' = "idle"
    /\ SetHeap(DropInPlace(Heap, inner_value))
    /\ inner_value' = NoValue
    /\ UNCHANGED <<via, mem, boxed_value, self, value, boxed_uninit, allocCount, entry,
                   orig, iter, created, live0>>

\* ---------------------------------------------------------------- into_inner

\* A variant of the delegation that unboxes by itself: it reads the content and
\* lets `self` drop as an ordinary Box<T>.
into_inner_unboxing ==
    /\ pc = "method"
    /\ pc' = "method_ret"
    /\ \E r \in ReadSlot(self) :
       /\ inner_value' = r
       /\ SetHeap(DropBox(Heap, self, r))
    /\ self' = NoBox
    /\ UNCHANGED <<via, mem, boxed_value, value, boxed_uninit, allocCount, entry, orig,
                   iter, created, live0>>

\* Line 66: box_into_inner(self); `self` moves into the parameter `value`.
into_inner ==
    /\ pc = "method"
    /\ pc' = "entered"
    /\ value' = self
    /\ self' = NoBox
    /\ entry' = [box |-> self, live |-> live, frees |-> freeCount, drops |-> dropCount]
    /\ UNCHANGED <<via, live, mem, boxed_value, boxed_uninit, inner_value, dropCount,
                   freeCount, allocCount, ub, orig, iter, created, live0>>

\* Line 66 is the tail expression: into_inner returns what box_into_inner returned.
into_inner_return ==
    /\ pc = "method_ret"
    /\ pc' = "returned"
    /\ UNCHANGED <<via, live, mem, boxed_value, self, value, boxed_uninit, inner_value,
                   dropCount, freeCount, allocCount, ub, entry, orig, iter, created,
                   live0>>

\* ---------------------------------------------------------------- box_into_inner

\* A variant of line 42 that keeps the element type: the local stays a Box<T>.
transmute_keeps_type ==
    /\ pc = "entered"
    /\ pc' = "transmuted"
    /\ boxed_uninit' = value
    /\ value' = NoBox
    /\ UNCHANGED <<via, live, mem, boxed_value, self, inner_value, dropCount, freeCount,
                   allocCount, ub, entry, orig, iter, created, live0>>

\* A variant of line 42 that releases the allocation and keeps the raw pointer.
transmute_releases ==
    /\ pc = "entered"
    /\ pc' = "transmuted"
    /\ boxed_uninit' = [value EXCEPT !.view = "MaybeUninit"]
    /\ value' = NoBox
    /\ SetHeap(IF SizeOf(value.ty) = 0 THEN Heap ELSE Dealloc(Heap, value.ptr))
    /\ UNCHANGED <<via, mem, boxed_value, self, inner_value, allocCount, entry, orig,
                   iter, created, live0>>

\* A variant of line 42 that copies the box instead of moving it: `value` stays usable.
transmute_copies ==
    /\ pc = "entered"
    /\ pc' = "transmuted"
    /\ boxed_uninit' = [value EXCEPT !.view = "MaybeUninit"]
    /\ UNCHANGED <<via, live, mem, boxed_value, self, value, inner_value, dropCount,
                   freeCount, allocCount, ub, entry, orig, iter, created, live0>>

\* Line 42: mem::transmute::<Box<T>, Box<MaybeUninit<T>>>(value).  The pointer is
\* kept, the element type becomes MaybeUninit<T>, and `value` is moved from.
transmute ==
    /\ pc = "entered"
    /\ pc' = "transmuted"
    /\ boxed_uninit' = [value EXCEPT !.view = "MaybeUninit"]
    /\ value' = NoBox
    /\ UNCHANGED <<via, live, mem, boxed_value, self, inner_value, dropCount, freeCount,
                   allocCount, ub, entry, orig, iter, created, live0>>

\* A variant of line 45 that yields a zeroed T instead of the slot's bits.
assume_init_read_zeroed ==
    /\ pc = "transmuted"
    /\ pc' = "read"
    /\ inner_value' = [ty |-> boxed_uninit.ty, bits |-> <<>>]
    /\ UNCHANGED <<via, live, mem, boxed_value, self, value, boxed_uninit, dropCount,
                   freeCount, allocCount, ub, entry, orig, iter, created, live0>>

\* A variant of line 45 with a failure path: it stops on a slot with no bits.
assume_init_read_guarded ==
    /\ pc = "transmuted"
    /\ \E r \in ReadSlot(boxed_uninit) :
       /\ r.bits # <<>>
       /\ inner_value' = r
    /\ pc' = "read"
    /\ UNCHANGED <<via, live, mem, boxed_value, self, value, boxed_uninit, dropCount,
                   freeCount, allocCount, ub, entry, orig, iter, created, live0>>

\* Line 45: boxed_uninit.assume_init_read() copies the bits of the slot into the
\* return place; boxed_uninit is only borrowed and stays as it is.
assume_init_read ==
    /\ pc = "transmuted"
    /\ pc' = "read"
    /\ \E r \in ReadSlot(boxed_uninit) : inner_value' = r
    /\ UNCHANGED <<via, live, mem, boxed_value, self, value, boxed_uninit, dropCount,
                   freeCount, allocCount, ub, entry, orig, iter, created, live0>>

\* A variant of the scope end that forgets the local instead of dropping it.
drop_boxed_uninit_forgets ==
    /\ pc = "read"
    /\ pc' = "fn_done"
    /\ boxed_uninit' = NoBox
    /\ UNCHANGED <<via, live, mem, boxed_value, self, value, inner_value, dropCount,
                   freeCount, allocCount, ub, entry, orig, iter, created, live0>>

\* Line 46: the body's scope ends and the local boxed_uninit is dropped, after the
\* tail expression of line 45 was evaluated.
drop_boxed_uninit ==
    /\ pc = "read"
    /\ pc' = "fn_done"
    /\ \E c \in ReadSlot(boxed_uninit) : SetHeap(DropBox(Heap, boxed_uninit, c))
    /\ boxed_uninit' = NoBox
    /\ UNCHANGED <<via, mem, boxed_value, self, value, inner_value, allocCount, entry,
                   orig, iter, created, live0>>

\* Line 46: box_into_inner returns, to the caller or to into_inner.
return_fn ==
    /\ pc = "fn_done"
    /\ pc' = IF via = "method" THEN "method_ret" ELSE "returned"
    /\ UNCHANGED <<via, live, mem, boxed_value, self, value, boxed_uninit, inner_value,
                   dropCount, freeCount, allocCount, ub, entry, orig, iter, created,
                   live0>>

\* ---------------------------------------------------------------- specification

BoxNew ==
    \/ \E ty \in Types \ {"Vec"} : \E p \in Payloads(ty) : BoxNewPlain(ty, p)
    \/ \E p \in Payloads("Vec") : BoxNewVec(p)

Next ==
    \/ BoxNew
    \/ call_box_into_inner
    \/ call_into_inner
    \/ into_inner
    \/ transmute
    \/ assume_init_read
    \/ drop_boxed_uninit
    \/ return_fn
    \/ into_inner_return
    \/ DropInner

Spec == Init /\ [][Next]_vars

\* box_into_inner is straight-line code on one thread: once entered, each of its
\* statements is executed.
LiveSpec ==
    /\ Spec
    /\ WF_vars(transmute)
    /\ WF_vars(assume_init_read)
    /\ WF_vars(drop_boxed_uninit)

TypeOK ==
    /\ pc \in {"idle", "boxed", "method", "entered", "transmuted", "read", "fn_done",
               "method_ret", "returned"}
    /\ via \in {"fn", "method"}
    /\ live \subseteq Addrs
    /\ iter \in 0..MaxIter
    /\ ub \in BOOLEAN

\* ---------------------------------------------------------------- properties

InCall == pc \in {"entered", "transmuted", "read", "fn_done"}
Yielded == pc \in {"read", "fn_done", "method_ret", "returned"}
Sized(b) == SizeOf(b.ty) > 0

Count(b) == IF b # NoBox THEN 1 ELSE 0
HandleCount == Count(boxed_value) + Count(self) + Count(value) + Count(boxed_uninit)

\* A Box<T> over the value exists.
Boxed == Count(boxed_value) + Count(self) + Count(value) >= 1
\* The value has been moved out of its slot.
Extracted == inner_value # NoValue

\* The owners that will run T's destructor on the value when they go out of
\* scope: every Box<T>, and the moved-out value itself.  A Box<MaybeUninit<T>>
\* is none.
Obliged(b) == IF b.view = "T" THEN 1 ELSE 0
Holders ==
    Obliged(boxed_value) + Obliged(self) + Obliged(value) + Obliged(boxed_uninit)
    + (IF inner_value # NoValue THEN 1 ELSE 0)

\* C1: the value that box_into_inner (or into_inner) yields is the value that was
\* put into the box: the same bits, and it shows its owner the same content
\* (a Vec still reaches its elements).
ValuePreserved ==
    Yielded =>
        /\ inner_value = orig.val
        /\ Observe(inner_value, live, mem) = orig.seen

ValuePreservedWitness ==
    /\ pc = "returned"
    /\ inner_value.ty = "Vec"
    /\ orig.seen = <<1, 2, 3, 4, 5>>
    /\ Observe(inner_value, live, mem) = <<1, 2, 3, 4, 5>>

\* C2: from the entry of box_into_inner to its return no destructor of T runs:
\* the destructor count equals the count at entry, also after the allocation
\* was released.
NoDropInCall == InCall => dropCount = entry.drops

NoDropInCallWitness ==
    /\ pc = "fn_done"
    /\ NeedsDrop(entry.box.ty)
    /\ Sized(entry.box)
    /\ entry.box.ptr \notin live
    /\ entry.drops = 1
    /\ dropCount = 1

\* C3: create a box, extract, drop the returned value: the destructor has run
\* exactly once per value that has one, and until the returned value is dropped
\* it has not run for the current value.
ExactlyOneCleanup ==
    /\ pc = "idle" => dropCount = created
    /\ pc # "idle" => dropCount + (IF NeedsDrop(orig.val.ty) THEN 1 ELSE 0) = created

ExactlyOneCleanupWitness ==
    /\ pc = "idle"
    /\ iter = 1
    /\ orig.val.ty = "Counted"
    /\ dropCount = 1

\* C4 as stated: every call of box_into_inner has performed exactly one free when
\* it returns, the free of the box's allocation.
OneFreePerCall ==
    pc = "fn_done" =>
        /\ freeCount = entry.frees + 1
        /\ live = entry.live \ {entry.box.ptr}
        /\ entry.box.ptr \in entry.live
        /\ ~ub

\* C4 amended: a call on a box of a T of non-zero size has performed exactly one
\* free when it returns, of the box's allocation, which was live and is released,
\* and nothing else was released; a call on a box of a zero-sized T, which has no
\* allocation, has performed no free.
OneFreePerSizedCall ==
    pc = "fn_done" =>
        IF Sized(entry.box)
        THEN /\ freeCount = entry.frees + 1
             /\ live = entry.live \ {entry.box.ptr}
             /\ entry.box.ptr \in entry.live
             /\ ~ub
        ELSE /\ freeCount = entry.frees
             /\ live = entry.live
             /\ ~ub

OneFreePerSizedCallWitness ==
    /\ pc = "fn_done"
    /\ entry.box.ty = "Vec"
    /\ freeCount = entry.frees + 1
    /\ entry.box.ptr \notin live
    /\ inner_value.bits[1] \in live

\* C5: after any number of repetitions of (Box::new, extract, drop the returned
\* value) the live allocations are those live before the first repetition, and
\* every allocation made was freed exactly once.
NoLeak ==
    pc = "idle" =>
        /\ live = live0
        /\ freeCount = allocCount
        /\ ~ub

NoLeakWitness ==
    /\ pc = "idle"
    /\ iter >= 2
    /\ allocCount >= 3
    /\ live0 # {}

\* C6: into_inner only hands its box to box_into_inner and hands the result back:
\* its own two steps change neither the heap, the counters nor the value, and
\* what the method returns is the value and the effect of box_into_inner.
MethodDelegates ==
    [][ /\ pc = "method" =>
            /\ pc' = "entered"
            /\ value' = self
            /\ UNCHANGED <<live, mem, inner_value, dropCount, freeCount, allocCount, ub>>
        /\ pc = "method_ret" =>
            /\ pc' = "returned"
            /\ UNCHANGED <<live, mem, inner_value, dropCount, freeCount, allocCount, ub>>
        /\ (via = "method" /\ pc' = "returned") =>
            /\ inner_value' = orig.val
            /\ dropCount' = entry.drops
            /\ freeCount' = entry.frees + (IF Sized(entry.box) THEN 1 ELSE 0)
      ]_vars

MethodDelegatesWitness ==
    /\ pc = "returned"
    /\ via = "method"
    /\ orig.seen = Hello
    /\ inner_value = orig.val
    /\ freeCount = entry.frees + 1

\* C7: the box is consumed once.  There is never more than one handle to the
\* allocation; once the value is out no Box<T> exists; a Box<T> comes into
\* existence only by a new Box::new; no handle points at a released slot.
ConsumedOnce ==
    [][ /\ HandleCount' <= 1
        /\ Extracted' => ~Boxed'
        /\ (~Boxed /\ Boxed') => (iter' = iter + 1 /\ ~Extracted')
        /\ \A h \in {boxed_value', self', value', boxed_uninit'} :
               (h # NoBox /\ Sized(h)) => h.ptr \in live'
      ]_vars

ConsumedOnceWitness ==
    /\ pc = "returned"
    /\ HandleCount = 0
    /\ Sized(entry.box)
    /\ entry.box.ptr \notin live
    /\ iter = 2

\* C8: box_into_inner cannot fail: it is a straight line of statements, and a
\* call that was entered reaches its end holding a value of type T.
CannotFail ==
    /\ [][ /\ pc = "entered" => pc' = "transmuted"
           /\ pc = "transmuted" => pc' = "read"
           /\ pc = "read" => pc' = "fn_done"
         ]_vars
    /\ (pc = "entered") ~>
           (pc = "fn_done" /\ inner_value # NoValue /\ inner_value.ty = orig.val.ty)

CannotFailWitness ==
    /\ pc = "fn_done"
    /\ inner_value # NoValue
    /\ inner_value.ty = "ZstCounted"
    /\ entry.box.ty = "ZstCounted"

\* C9 as stated: while a value with a destructor is live exactly one owner holds
\* the obligation to clean it up.
AlwaysOneHolder == (pc # "idle" /\ NeedsDrop(orig.val.ty)) => Holders = 1

\* C9 amended: there are never two holders, and exactly one in every state in
\* which the value is live except between the transmute of line 42 and the read
\* of line 45, where the only handle is the Box<MaybeUninit<T>>.
OneHolderOutsideTransmute ==
    /\ Holders <= 1
    /\ pc \notin {"idle", "transmuted"} => Holders = 1

OneHolderOutsideTransmuteWitness ==
    /\ pc = "read"
    /\ Holders = 1
    /\ boxed_uninit # NoBox
    /\ NeedsDrop(inner_value.ty)

\* C10: the read of line 45 happens while the allocation is live, and the
\* allocation is released only after the value was read.
ReadBeforeFree ==
    [][ /\ (pc = "transmuted" /\ pc' = "read" /\ Sized(boxed_uninit)) =>
               boxed_uninit.ptr \in live
        /\ (pc \in {"entered", "transmuted", "read"} /\ entry.box.ptr \in live
               /\ entry.box.ptr \notin live') => inner_value # NoValue
      ]_vars

ReadBeforeFreeWitness ==
    /\ pc = "fn_done"
    /\ entry.box.ty = "Counted"
    /\ entry.box.ptr \notin live
    /\ inner_value = orig.val

====
